---- MODULE Spec2Model ----
(***************************************************************************)
(* Model of ragsmith's quality gate (src/src/stages/validator.py), stream   *)
(* orchestrator (src/src/pipeline.py) and segmenter                        *)
(* (src/src/stages/chunker.py).                                            *)
(*                                                                         *)
(* Ratios (info density, noise, garble, repetition) are integers in        *)
(* hundredths; the composite rule score is an integer in ten-thousandths   *)
(* (0.6 is 6000).  The chunk inputs are chosen so that every division of   *)
(* _calculate_rule_score is exact.                                         *)
(***************************************************************************)
EXTENDS Integers, Sequences, FiniteSets, TLC

\* ------------------------------------------------------------------ bounds
MaxCalls == 2
MaxRetry == 2
MaxChunks == 2
NumPages == 3
MaxRuns == 2
BlocksPerPage == 10
MaxText == 5
MaxPart == 2
MaxPieces == 3

\* ------------------------------------------------- configuration defaults
min_length == 200
min_info_density == 30
max_noise_ratio == 30
max_garble_ratio == 10
max_repetition_ratio == 50
edge_threshold == 6000
reject_score == 3000
bad_score == 2000
writer_batch_factor == 10

VARIABLES
  config,           \* Config: llm.*, quality.llm_validation.*, runtime.*
  llm_call_count,   \* Validator._llm_call_count
  requests_sent,    \* POST requests this Validator has sent to the oracle endpoint
  last_validation,  \* what the last validate_chunk(s) call was given and returned
  document,         \* the input: what each page of the PDF yields
  pc,               \* where Pipeline.run is: idle, pages, done, aborted
  loop,             \* locals of run / _process_pages, and Pipeline.checkpoint
  stats,            \* Pipeline.stats
  batch_writer,     \* BatchWriter._pages_buffer, _chunks_buffer, _rejected_buffer
  chunk_counter,    \* Chunker._chunk_counter
  sink,             \* the output directory: the three streams and checkpoint.json
  history,          \* what the runs of one job did: pages processed, windows segmented
  chunk_config,     \* Config.chunk of a Chunker under test
  merged_content,   \* what _merge_page_contents made of the window handed to it
  created,          \* what create_chunks returned for it
  by_chars          \* Chunker._split_by_chars under way: its locals start and chunks

gate_vars == <<config, llm_call_count, requests_sent, last_validation>>
pipe_vars == <<document, pc, loop, stats, batch_writer, chunk_counter, sink, history>>
chunk_vars == <<chunk_config, merged_content, created, by_chars>>

Min(a, b) == IF a <= b THEN a ELSE b
Max(a, b) == IF a >= b THEN a ELSE b

\* --------------------------------------------------------- rule validation
NoResult == [quality |-> "none", confidence |-> 0, reason |-> <<>>, source |-> "none"]

\* Validator._calculate_rule_score: weights 0.15/0.25/0.25/0.2/0.15
CalculateRuleScore(length, info_density, noise_ratio, garble_ratio, repetition_ratio) ==
  LET length_score == Min((100 * length) \div min_length, 100)
      density_score == Min((100 * info_density) \div min_info_density, 100)
      noise_score == Max(0, 100 - (100 * noise_ratio) \div max_noise_ratio)
      garble_score == Max(0, 100 - (100 * garble_ratio) \div max_garble_ratio)
      repetition_score == Max(0, 100 - (100 * repetition_ratio) \div max_repetition_ratio)
  IN 15 * length_score + 25 * density_score + 25 * noise_score
       + 20 * garble_score + 15 * repetition_score

\* Validator._rule_validation: the violated rules, in the order the code appends them
RuleReasons(cfg, chunk) ==
  (IF chunk.length < min_length THEN <<"length">> ELSE <<>>)
  \o (IF chunk.info_density < min_info_density THEN <<"info_density">> ELSE <<>>)
  \o (IF chunk.noise_ratio > max_noise_ratio THEN <<"noise">> ELSE <<>>)
  \o (IF cfg.garble_enabled /\ chunk.garble_ratio > max_garble_ratio THEN <<"garble">> ELSE <<>>)
  \o (IF chunk.repetition_ratio > max_repetition_ratio THEN <<"repetition">> ELSE <<>>)

RuleVerdictByCount(nreasons, score) ==
  IF nreasons > 0
  THEN (IF nreasons >= 2 THEN "reject" ELSE "low")
  ELSE "good"

\* Validator._rule_validation, lines 149-156
RuleVerdict(nreasons, score) ==
  IF nreasons > 0
  THEN (IF nreasons >= 2 \/ score < reject_score THEN "reject" ELSE "low")
  ELSE "good"

RuleResult(reasons, score) ==
  [quality |-> RuleVerdict(Len(reasons), score),
   confidence |-> score,
   reason |-> IF reasons = <<>> THEN <<"rule_pass">> ELSE reasons,
   source |-> "rule"]

RuleValidation(cfg, chunk) ==
  RuleResult(RuleReasons(cfg, chunk),
             CalculateRuleScore(chunk.length, chunk.info_density, chunk.noise_ratio,
                                IF cfg.garble_enabled THEN chunk.garble_ratio ELSE 0,
                                chunk.repetition_ratio))

\* ------------------------------------------------------------ oracle routing
ShouldUseLlmDropVerdict(cfg, rule_result) ==
  IF ~cfg.llm_enabled THEN FALSE
  ELSE IF ~cfg.llm_validation_enabled THEN FALSE
  ELSE IF cfg.only_edge_chunks
            /\ (rule_result.confidence > edge_threshold \/ rule_result.confidence < bad_score)
       THEN FALSE
  ELSE TRUE

\* Validator._should_use_llm
ShouldUseLlm(cfg, rule_result) ==
  IF ~cfg.llm_enabled THEN FALSE
  ELSE IF ~cfg.llm_validation_enabled THEN FALSE
  ELSE IF cfg.only_edge_chunks
            /\ ((rule_result.confidence > edge_threshold /\ rule_result.quality = "good")
                \/ rule_result.confidence < bad_score)
       THEN FALSE
  ELSE TRUE

CanCallLlmInclusive(cfg, count) == count <= cfg.max_calls

\* Validator._can_call_llm
CanCallLlm(cfg, count) == count < cfg.max_calls

\* ------------------------------------------------------------- oracle call
\* An oracle script says how the endpoint behaves for one consultation: the
\* first `fails` requests time out or fail in transport, the next one (if any)
\* is answered with a body whose "response" text is `resp`.
NoResponse == [kind |-> "none", quality |-> "none", confidence |-> "none"]

\* Response texts, by what _parse_llm_response does with them:
\*   empty      ""                         -> `if response` is false
\*   prose      no brace-delimited object  -> re.search finds nothing
\*   malformed  braces around non-JSON     -> json.JSONDecodeError
\*   json       a flat JSON object; quality is a known string, an unknown
\*              string ("other") or null; confidence is a number or a word
JsonResponses ==
  [kind : {"json"}, quality : {"good", "low", "reject", "other", "null"},
   confidence : {"number"}]
  \cup {[kind |-> "json", quality |-> "good", confidence |-> "word"]}
Responses ==
  {[kind |-> k, quality |-> "none", confidence |-> "none"] : k \in {"empty", "prose", "malformed"}}
  \cup JsonResponses

CallOllamaOneMore(cfg, script) ==
  IF script.fails >= cfg.retry_times + 1
  THEN [response |-> NoResponse, requests |-> cfg.retry_times + 1]
  ELSE [response |-> script.resp, requests |-> script.fails + 1]

\* Validator._call_ollama: one request per attempt, stop at the first answer
CallOllama(cfg, script) ==
  IF script.fails >= cfg.retry_times
  THEN [response |-> NoResponse, requests |-> cfg.retry_times]
  ELSE [response |-> script.resp, requests |-> script.fails + 1]

\* Validator._parse_llm_response; raised = an exception it does not catch
\* (AttributeError from None.lower())
ParseLlmResponse(response) ==
  IF response.kind # "json" THEN [raised |-> FALSE, result |-> NoResult]
  ELSE IF response.quality = "null" THEN [raised |-> TRUE, result |-> NoResult]
  ELSE IF response.confidence = "word" THEN [raised |-> FALSE, result |-> NoResult]
  ELSE [raised |-> FALSE,
        result |-> [quality |-> IF response.quality \in {"good", "low", "reject"}
                                THEN response.quality ELSE "low",
                    confidence |-> 9000,
                    reason |-> <<"llm_reason">>,
                    source |-> "llm"]]

\* Validator._llm_validation, lines 258-259: parse only a non-empty response
ParseIfResponse(response) ==
  IF response.kind \in {"none", "empty"}
  THEN [raised |-> FALSE, result |-> NoResult]
  ELSE ParseLlmResponse(response)

LlmOutcomeNoCatch(count, call, parsed) ==
  [count |-> count + 1, requests |-> call.requests, response |-> call.response,
   raised |-> parsed.raised, result |-> parsed.result]

\* Validator._llm_validation: count the call first; `except Exception` turns
\* whatever the call or the parse raised into None
LlmOutcome(count, call, parsed) ==
  [count |-> count + 1, requests |-> call.requests, response |-> call.response,
   raised |-> FALSE,
   result |-> IF parsed.raised THEN NoResult ELSE parsed.result]

LlmParsed(count, call) == LlmOutcome(count, call, ParseIfResponse(call.response))

\* Validator._llm_validation
LlmValidation(cfg, count, script) == LlmParsed(count, CallOllama(cfg, script))

\* --------------------------------------------------------------- validate
\* Chunk as created by the segmenter: content metrics plus the gate's fields
NewChunk(cid, metrics) ==
  [cid |-> cid, length |-> metrics.length, info_density |-> metrics.info_density,
   noise_ratio |-> metrics.noise_ratio, garble_ratio |-> metrics.garble_ratio,
   repetition_ratio |-> metrics.repetition_ratio,
   rule_score |-> 10000, llm_quality |-> "none", llm_confidence |-> 0,
   llm_reason |-> <<>>, has_reject_reason |-> FALSE, reject_reason |-> <<>>]

\* Validator.validate_chunk, line 70: return chunk, rule_result
RuleOutcome(scored, rule_result, count, requests, response) ==
  [chunk |-> scored, rule_result |-> rule_result, result |-> rule_result,
   count |-> count, requests |-> requests, response |-> response, raised |-> FALSE]

SupersedeKeepRule(scored, rule_result, llm) ==
  RuleOutcome(scored, rule_result, llm.count, llm.requests, llm.response)

\* Validator.validate_chunk, lines 63-70: an oracle result replaces the rule result
Supersede(scored, rule_result, llm) ==
  IF llm.raised
  THEN [chunk |-> scored, rule_result |-> rule_result, result |-> NoResult,
        count |-> llm.count, requests |-> llm.requests,
        response |-> llm.response, raised |-> TRUE]
  ELSE IF llm.result # NoResult
  THEN [chunk |-> [scored EXCEPT !.llm_quality = llm.result.quality,
                                 !.llm_confidence = llm.result.confidence,
                                 !.llm_reason = llm.result.reason],
        rule_result |-> rule_result, result |-> llm.result,
        count |-> llm.count, requests |-> llm.requests,
        response |-> llm.response, raised |-> FALSE]
  ELSE RuleOutcome(scored, rule_result, llm.count, llm.requests, llm.response)

\* Validator.validate_chunk, lines 56-70
ValidateScored(cfg, chunk, count, script, rule_result) ==
  IF ShouldUseLlm(cfg, rule_result) /\ CanCallLlm(cfg, count)
  THEN Supersede([chunk EXCEPT !.rule_score = rule_result.confidence], rule_result,
                 LlmValidation(cfg, count, script))
  ELSE RuleOutcome([chunk EXCEPT !.rule_score = rule_result.confidence], rule_result,
                   count, 0, NoResponse)

\* Validator.validate_chunk
ValidateChunk(cfg, chunk, count, script) ==
  ValidateScored(cfg, chunk, count, script, RuleValidation(cfg, chunk))

IsRejectedUnlessGood(result) == result.quality # "good"

\* Validator.validate_chunks, line 88: only REJECT goes to the rejected list
IsRejected(result) == result.quality = "reject"

\* the endpoint's behaviour is of no account when it is not consulted
NoScript == [fails |-> 0, resp |-> NoResponse]

\* Validator.validate_chunks, lines 86-92: one chunk validated and placed; acc
\* carries the two lists, the call counter, the requests sent and one entry
\* per chunk
Place(acc, input, v, script) ==
  [accepted |-> IF v.raised \/ IsRejected(v.result) THEN acc.accepted
                ELSE Append(acc.accepted, v.chunk),
   rejected |-> IF ~v.raised /\ IsRejected(v.result)
                THEN Append(acc.rejected, [v.chunk EXCEPT !.has_reject_reason = TRUE,
                                                          !.reject_reason = v.result.reason])
                ELSE acc.rejected,
   count |-> v.count,
   requests |-> acc.requests + v.requests,
   raised |-> v.raised,
   entries |-> Append(acc.entries,
                 [input |-> input, chunk |-> v.chunk,
                  rule_result |-> v.rule_result, result |-> v.result,
                  count_before |-> acc.count, count_after |-> v.count,
                  requests |-> v.requests, response |-> v.response,
                  script |-> IF v.count > acc.count THEN script ELSE NoScript])]

\* Validator.validate_chunks: the loop from position i on
RECURSIVE ValidateChunksFrom(_, _, _, _, _)
ValidateChunksFrom(cfg, chunks, scripts, i, acc) ==
  IF i > Len(chunks) \/ acc.raised THEN acc
  ELSE ValidateChunksFrom(cfg, chunks, scripts, i + 1,
         Place(acc, chunks[i], ValidateChunk(cfg, chunks[i], acc.count, scripts[i]),
               scripts[i]))

ValidateChunks(cfg, chunks, scripts, count) ==
  ValidateChunksFrom(cfg, chunks, scripts, 1,
    [accepted |-> <<>>, rejected |-> <<>>, count |-> count, requests |-> 0,
     raised |-> FALSE, entries |-> <<>>])

\* ------------------------------------------------------------------ inputs
Metrics(l, d, n, g, r) ==
  [length |-> l, info_density |-> d, noise_ratio |-> n, garble_ratio |-> g,
   repetition_ratio |-> r]

\* good 1.0 | good 0.4 (every ratio on its limit) | low 0.925 |
\* reject 0.675 (two violations) | reject 0.25 (one violation) | reject 0.05
ChunkMetrics ==
  {Metrics(400, 90, 0, 0, 0), Metrics(200, 30, 30, 10, 50), Metrics(100, 90, 0, 0, 0),
   Metrics(100, 90, 45, 0, 0), Metrics(0, 30, 30, 10, 50), Metrics(0, 6, 45, 20, 75)}

GoodAnswer == [kind |-> "json", quality |-> "good", confidence |-> "number"]
RejectAnswer == [kind |-> "json", quality |-> "reject", confidence |-> "number"]
AllFail(cfg) == [fails |-> cfg.retry_times, resp |-> NoResponse]

\* every retry fails | the first request is answered, with each response text |
\* the last permitted retry is answered
Scripts(cfg) ==
  {AllFail(cfg)}
  \cup (IF cfg.retry_times > 0 THEN {[fails |-> 0, resp |-> r] : r \in Responses} ELSE {})
  \cup (IF cfg.retry_times > 1
        THEN {[fails |-> cfg.retry_times - 1, resp |-> GoodAnswer]} ELSE {})

\* the inputs of the list form: a chunk the rules call low and one they reject
\* (both routed under edge-only), each with an oracle that fails throughout
\* and with one that overturns the rule verdict
BatchInputs(cfg) ==
  {[metrics |-> Metrics(100, 90, 0, 0, 0), script |-> AllFail(cfg)],
   [metrics |-> Metrics(100, 90, 0, 0, 0), script |-> [fails |-> 0, resp |-> RejectAnswer]],
   [metrics |-> Metrics(100, 90, 45, 0, 0), script |-> AllFail(cfg)],
   [metrics |-> Metrics(100, 90, 45, 0, 0), script |-> [fails |-> 0, resp |-> GoodAnswer]]}

SeqsUpTo(S, n) == UNION {[1..k -> S] : k \in 0..n}

GateConfigs ==
  [llm_enabled : BOOLEAN, llm_validation_enabled : BOOLEAN, only_edge_chunks : BOOLEAN,
   garble_enabled : BOOLEAN, max_calls : 0..MaxCalls, retry_times : 0..MaxRetry,
   batch_size : {1}, save_interval : {1}, enable_checkpoint : {TRUE}]

NoValidation == [op |-> "none", raised |-> FALSE, accepted |-> <<>>, rejected |-> <<>>,
                 entries |-> <<>>]

\* ------------------------------------------------------ pipeline: state
Pages == 0..(NumPages - 1)

\* what a page yields: text that makes a good chunk, an edge chunk (rules say
\* low, the oracle says reject), a page whose parsing or normalisation raises,
\* or a page the source cannot load
PageKinds == {"good", "edge", "fail", "lost"}

NoCheckpoint ==
  [exists |-> FALSE, last_processed_page |-> -1, processed_chunks |-> 0, llm_calls_used |-> 0]
EmptySink ==
  [pages_file |-> <<>>, chunks_file |-> <<>>, rejected_file |-> <<>>,
   checkpoint |-> NoCheckpoint]
EmptyWriter == [pages_buffer |-> <<>>, chunks_buffer |-> <<>>, rejected_buffer |-> <<>>]
FreshStats ==
  [processed_pages |-> 0, failed_pages |-> 0, total_chunks |-> 0, accepted_chunks |-> 0,
   rejected_chunks |-> 0, llm_calls |-> 0]
FreshLoop ==
  [resume |-> FALSE, checkpoint |-> NoCheckpoint, start_page |-> 0, append_mode |-> FALSE,
   page_num |-> 0, buffer |-> {}, last_checkpoint_page |-> -1]
FreshHistory(runs) ==
  [runs |-> runs, resumes |-> 0, processed |-> <<>>, windows |-> <<>>, last_done |-> -1,
   ids |-> <<>>, calls |-> 0, unflushed |-> {}, since_save |-> 0]

\* ChunkConfig's defaults
DefaultChunkConfig ==
  [size |-> 800, overlap |-> 150, min_chunk_size |-> 100, split_by |-> "token",
   respect_sentence_boundary |-> TRUE]
NothingCreated == [called |-> FALSE, chunks |-> <<>>, counter |-> 0]
NotSplitting == [pc |-> "idle", start |-> 0, chunks |-> <<>>]

IdleChunker ==
  /\ chunk_config = DefaultChunkConfig
  /\ merged_content = <<>>
  /\ created = NothingCreated
  /\ by_chars = NotSplitting

IdlePipeline ==
  /\ document = [p \in Pages |-> "good"]
  /\ pc = "idle"
  /\ loop = FreshLoop
  /\ stats = FreshStats
  /\ batch_writer = EmptyWriter
  /\ chunk_counter = 0
  /\ sink = EmptySink
  /\ history = FreshHistory(0)

InitGate ==
  /\ config \in GateConfigs
  /\ llm_call_count = 0
  /\ requests_sent = 0
  /\ last_validation = NoValidation
  /\ IdlePipeline
  /\ IdleChunker

\* the call's effect on the validator, the endpoint and the caller
Returned(op, r) ==
  /\ llm_call_count' = r.count
  /\ requests_sent' = requests_sent + r.requests
  /\ last_validation' = [op |-> op, raised |-> r.raised,
                         accepted |-> IF op = "validate_chunks" THEN r.accepted ELSE <<>>,
                         rejected |-> IF op = "validate_chunks" THEN r.rejected ELSE <<>>,
                         entries |-> r.entries]

\* validate_chunk(chunk)
ValidateChunkCall ==
  /\ \E m \in ChunkMetrics : \E s \in Scripts(config) :
       Returned("validate_chunk",
                ValidateChunks(config, <<NewChunk(1, m)>>, <<s>>, llm_call_count))
  /\ UNCHANGED <<chunk_vars, config, pipe_vars>>

\* validate_chunks(chunks)
ValidateChunksCall ==
  /\ \E ins \in SeqsUpTo(BatchInputs(config), MaxChunks) :
       Returned("validate_chunks",
                ValidateChunks(config, [i \in 1..Len(ins) |-> NewChunk(i, ins[i].metrics)],
                               [i \in 1..Len(ins) |-> ins[i].script], llm_call_count))
  /\ UNCHANGED <<chunk_vars, config, pipe_vars>>

NextGate == ValidateChunkCall \/ ValidateChunksCall

vars == <<gate_vars, pipe_vars, chunk_vars>>

SpecGate == InitGate /\ [][NextGate]_vars

\* ================================================================ pipeline
\* The chunker is represented by its output on pages whose text each fills
\* exactly one chunk: a window yields one chunk per page, in page order.
KindMetrics(kind) ==
  IF kind = "good" THEN Metrics(400, 90, 0, 0, 0)
  ELSE IF kind = "edge" THEN Metrics(100, 90, 0, 0, 0)
  ELSE Metrics(0, 6, 45, 20, 75)

MinOf(S) == CHOOSE x \in S : \A y \in S : x <= y
MaxOf(S) == CHOOSE x \in S : \A y \in S : x >= y

\* Chunker._merge_page_contents: sorted(page_blocks_map.keys())
RECURSIVE SortedPages(_)
SortedPages(S) == IF S = {} THEN <<>> ELSE <<MinOf(S)>> \o SortedPages(S \ {MinOf(S)})

\* Chunker._split_into_chunks: page range and the counter that goes into the id
ChunksOf(pages, counter) ==
  [i \in DOMAIN pages |->
     [page_start |-> pages[i], page_end |-> pages[i], index |-> counter + i]]

\* utils.generate_chunk_id: the identifier is the page range and the index,
\* followed by a hash of the source name, the page range and the index
generate_chunk_id(page_start, page_end, index) == <<page_start, page_end, index>>
ChunkIds(chunks) ==
  [i \in DOMAIN chunks |->
     generate_chunk_id(chunks[i].page_start, chunks[i].page_end, chunks[i].index)]

\* Chunker.create_chunks
CreateChunks(window, counter) == ChunksOf(SortedPages(window), counter)

GateChunks(chunks) ==
  [i \in DOMAIN chunks |-> NewChunk(i, KindMetrics(document[chunks[i].page_start]))]
GateScripts(chunks) == [i \in DOMAIN chunks |-> [fails |-> 0, resp |-> RejectAnswer]]

\* Chunk.to_json: the record a chunk leaves in chunks.jsonl / rejected.jsonl
FileChunks(chunks, placed) ==
  [i \in DOMAIN placed |->
     [page_start |-> chunks[placed[i].cid].page_start,
      page_end |-> chunks[placed[i].cid].page_end,
      index |-> chunks[placed[i].cid].index,
      llm_quality |-> placed[i].llm_quality]]

\* BatchWriter.__init__ (pipeline.py:148): batch_size = runtime.batch_size * 10
WriterLimit == config.batch_size * writer_batch_factor

\* BatchWriter.add_page_blocks: a page's blocks, flushed once the buffer is full
AddPageBlocks(m, p) ==
  IF (Len(m.writer.pages_buffer) + 1) * BlocksPerPage >= WriterLimit
  THEN [m EXCEPT !.sink.pages_file = @ \o Append(m.writer.pages_buffer, p),
                 !.writer.pages_buffer = <<>>]
  ELSE [m EXCEPT !.writer.pages_buffer = Append(@, p)]

\* BatchWriter.add_chunks
AddChunks(m, recs) ==
  IF Len(m.writer.chunks_buffer) + Len(recs) >= WriterLimit
  THEN [m EXCEPT !.sink.chunks_file = @ \o m.writer.chunks_buffer \o recs,
                 !.writer.chunks_buffer = <<>>]
  ELSE [m EXCEPT !.writer.chunks_buffer = @ \o recs]

\* BatchWriter.add_rejected
AddRejected(m, recs) ==
  IF Len(m.writer.rejected_buffer) + Len(recs) >= WriterLimit
  THEN [m EXCEPT !.sink.rejected_file = @ \o m.writer.rejected_buffer \o recs,
                 !.writer.rejected_buffer = <<>>]
  ELSE [m EXCEPT !.writer.rejected_buffer = @ \o recs]

\* BatchWriter.flush_all
FlushAll(m) ==
  [m EXCEPT !.sink.pages_file = @ \o m.writer.pages_buffer,
            !.sink.chunks_file = @ \o m.writer.chunks_buffer,
            !.sink.rejected_file = @ \o m.writer.rejected_buffer,
            !.writer = EmptyWriter]

\* Pipeline._process_buffer, lines 277-287: gate, hand to the writer, count
Sunk(m, window, chunks, r) ==
  AddRejected(
    AddChunks([m EXCEPT !.stats.total_chunks = @ + Len(chunks),
                        !.stats.accepted_chunks = @ + Len(r.accepted),
                        !.stats.rejected_chunks = @ + Len(r.rejected),
                        !.stats.llm_calls = r.count,
                        !.count = r.count,
                        !.requests = @ + r.requests,
                        !.chunk_counter = @ + Len(chunks),
                        !.history.windows = Append(@, window),
                        !.history.ids = @ \o ChunkIds(chunks),
                        !.history.calls = @ + (r.count - m.count)],
              FileChunks(chunks, r.accepted)),
    FileChunks(chunks, r.rejected))

Gated(m, window, chunks) ==
  IF chunks = <<>> THEN [m EXCEPT !.history.windows = Append(@, window)]
  ELSE Sunk(m, window, chunks,
            ValidateChunks(config, GateChunks(chunks), GateScripts(chunks), m.count))

\* Pipeline._process_buffer
ProcessBuffer(m, window) == Gated(m, window, CreateChunks(window, m.chunk_counter))

\* Pipeline._save_checkpoint(page_num)
SaveCheckpoint(m, page_num) ==
  [m EXCEPT !.sink.checkpoint =
     [exists |-> TRUE, last_processed_page |-> page_num,
      processed_chunks |-> m.stats.total_chunks, llm_calls_used |-> m.count]]

\* Pipeline._save_checkpoint(): page_num defaults to stats.processed_pages - 1
SaveCheckpointDefault(m) == SaveCheckpoint(m, m.stats.processed_pages - 1)

\* Pipeline._process_pages, lines 224-229
WindowFull(buffer) == Cardinality(buffer) >= config.batch_size
AfterBuffer(m, buffer) == IF WindowFull(buffer) THEN ProcessBuffer(m, buffer) ELSE m
Retained(buffer) == IF WindowFull(buffer) THEN {MaxOf(buffer)} ELSE buffer

\* Pipeline._process_pages, line 232
Counted(m, p) ==
  [m EXCEPT !.stats.processed_pages = @ + 1,
            !.history.processed = Append(@, p),
            !.history.last_done = p,
            !.history.since_save = @ + 1]

\* Pipeline._process_pages, lines 235-238
CheckpointDue(p, last_checkpoint_page) ==
  config.enable_checkpoint /\ p - last_checkpoint_page >= config.save_interval
PeriodicCheckpoint(m, p, last_checkpoint_page) ==
  IF CheckpointDue(p, last_checkpoint_page)
  THEN [SaveCheckpoint(m, p) EXCEPT !.history.since_save = 0] ELSE m

\* Pipeline._process_pages, lines 207-238: one page that parses and normalises
PageStep(m, p, buffer, last_checkpoint_page) ==
  PeriodicCheckpoint(Counted(AfterBuffer(AddPageBlocks(m, p), buffer \cup {p}), p),
                     p, last_checkpoint_page)

FailedPageAsProcessed(m) == [m EXCEPT !.stats.processed_pages = @ + 1]

\* Pipeline._process_pages, lines 249-252: the page's exception is counted
FailedPage(m) == [m EXCEPT !.stats.failed_pages = @ + 1]

\* Pipeline.run, lines 157-161, after _process_pages' last lines 255-256
FinalBuffer(m, buffer) == IF buffer # {} THEN ProcessBuffer(m, buffer) ELSE m
ClearCheckpoint(m) ==
  IF config.enable_checkpoint THEN [m EXCEPT !.sink.checkpoint = NoCheckpoint] ELSE m
Finished(m, buffer) == ClearCheckpoint(FlushAll(FinalBuffer(m, buffer)))

Machine ==
  [stats |-> stats, writer |-> batch_writer, sink |-> sink, chunk_counter |-> chunk_counter,
   count |-> llm_call_count, requests |-> requests_sent, history |-> history]

Commit(m) ==
  /\ stats' = m.stats
  /\ batch_writer' = m.writer
  /\ sink' = m.sink
  /\ chunk_counter' = m.chunk_counter
  /\ llm_call_count' = m.count
  /\ requests_sent' = m.requests
  /\ history' = m.history

StartPageSame(found, checkpoint) == IF found THEN checkpoint.last_processed_page ELSE 0

\* Pipeline.run, lines 136-141
StartPage(found, checkpoint) == IF found THEN checkpoint.last_processed_page + 1 ELSE 0

\* OutputWriter.open_files: mode 'a' keeps the streams, mode 'w' empties them
OpenFiles(files, append) ==
  IF append THEN files
  ELSE [files EXCEPT !.pages_file = <<>>, !.chunks_file = <<>>, !.rejected_file = <<>>]

Started(resume, found, start_page) ==
  /\ loop' = [resume |-> resume,
              checkpoint |-> IF found THEN sink.checkpoint ELSE NoCheckpoint,
              start_page |-> start_page, append_mode |-> start_page > 0,
              page_num |-> start_page, buffer |-> {},
              last_checkpoint_page |-> start_page - 1]
  /\ sink' = OpenFiles(sink, start_page > 0)
  /\ history' = IF found
                THEN [history EXCEPT !.runs = @ + 1, !.resumes = @ + 1, !.unflushed = {},
                                     !.since_save = 0]
                ELSE FreshHistory(history.runs + 1)

\* Pipeline.run(resume) in a new process, up to the call of _process_pages:
\* _init_stages builds a new Validator and Chunker, the checkpoint is loaded,
\* the streams are opened
StartRun ==
  /\ pc \in {"idle", "aborted", "done"}
  /\ history.runs < MaxRuns
  /\ \E resume \in BOOLEAN :
       Started(resume, resume /\ config.enable_checkpoint /\ sink.checkpoint.exists,
               StartPage(resume /\ config.enable_checkpoint /\ sink.checkpoint.exists,
                         sink.checkpoint))
  /\ pc' = "pages"
  /\ stats' = FreshStats
  /\ batch_writer' = EmptyWriter
  /\ chunk_counter' = 0
  /\ llm_call_count' = 0
  /\ requests_sent' = 0
  /\ UNCHANGED <<chunk_vars, config, document, last_validation>>

\* one iteration of the loop of _process_pages
ProcessPage ==
  /\ pc = "pages"
  /\ loop.page_num < NumPages
  /\ document[loop.page_num] # "lost"
  /\ IF document[loop.page_num] = "fail"
     THEN /\ Commit(FailedPage(Machine))
          /\ loop' = [loop EXCEPT !.page_num = @ + 1]
     ELSE /\ Commit(PageStep(Machine, loop.page_num, loop.buffer, loop.last_checkpoint_page))
          /\ loop' = [loop EXCEPT
                        !.page_num = @ + 1,
                        !.buffer = Retained(loop.buffer \cup {loop.page_num}),
                        !.last_checkpoint_page =
                           IF CheckpointDue(loop.page_num, loop.last_checkpoint_page)
                           THEN loop.page_num ELSE @]
  /\ UNCHANGED <<chunk_vars, config, document, last_validation, pc>>

\* InputLoader.iter_pages, lines 105-111: load_page raises, the generator logs
\* and moves to the next page number without yielding
SkipUnloadablePage ==
  /\ pc = "pages"
  /\ loop.page_num < NumPages
  /\ document[loop.page_num] = "lost"
  /\ loop' = [loop EXCEPT !.page_num = @ + 1]
  /\ UNCHANGED <<chunk_vars, gate_vars, document, pc, stats, batch_writer, chunk_counter, sink, history>>

\* an iteration of the loop of _process_pages in which saving the periodic
\* checkpoint (line 237) raises an OSError, after the page was counted: the
\* handler of lines 249-252 counts a failed page and the loop goes on
SinkFailure ==
  /\ pc = "pages"
  /\ loop.page_num < NumPages
  /\ document[loop.page_num] \notin {"fail", "lost"}
  /\ CheckpointDue(loop.page_num, loop.last_checkpoint_page)
  /\ Commit(FailedPage(Counted(AfterBuffer(AddPageBlocks(Machine, loop.page_num),
                                           loop.buffer \cup {loop.page_num}),
                               loop.page_num)))
  /\ loop' = [loop EXCEPT !.page_num = @ + 1,
                          !.buffer = Retained(loop.buffer \cup {loop.page_num})]
  /\ UNCHANGED <<chunk_vars, config, document, last_validation, pc>>

\* Pipeline._process_pages, lines 225 and 249-252: _process_buffer raises
\* before anything of the window is gated, lines 228-229 are not reached and
\* the buffer keeps every page it held
Unflushed(m, p) == [FailedPage(m) EXCEPT !.history.unflushed = @ \cup {p}]

\* an iteration of the loop of _process_pages in which the window is full and
\* create_chunks raises inside _process_buffer (line 225): the handler of lines
\* 249-252 counts a failed page and the loop goes on with the buffer as it is
WindowFailure ==
  /\ pc = "pages"
  /\ loop.page_num < NumPages
  /\ document[loop.page_num] \notin {"fail", "lost"}
  /\ WindowFull(loop.buffer \cup {loop.page_num})
  /\ Commit(Unflushed(AddPageBlocks(Machine, loop.page_num), loop.page_num))
  /\ loop' = [loop EXCEPT !.page_num = @ + 1, !.buffer = @ \cup {loop.page_num}]
  /\ UNCHANGED <<chunk_vars, config, document, last_validation, pc>>

\* the loop is over: the remaining buffer, flush_all, clear_checkpoint
FinishRun ==
  /\ pc = "pages"
  /\ loop.page_num >= NumPages
  /\ Commit(Finished(Machine, loop.buffer))
  /\ pc' = "done"
  /\ UNCHANGED <<chunk_vars, config, document, last_validation, loop>>

\* what the process leaves when run returns or raises: the writer's buffers go
\* with the process, the checkpoint is saved if checkpointing is on
Stopped(m) ==
  Commit([(IF config.enable_checkpoint THEN SaveCheckpointDefault(m) ELSE m)
            EXCEPT !.writer = EmptyWriter])

\* KeyboardInterrupt between two pages, or inside an iteration after the
\* page's blocks went to the writer and before the page is counted
Interrupt ==
  /\ pc = "pages"
  /\ \E mid \in BOOLEAN :
       IF mid
       THEN /\ loop.page_num < NumPages
            /\ document[loop.page_num] \notin {"fail", "lost"}
            /\ Stopped(AddPageBlocks(Machine, loop.page_num))
       ELSE Stopped(Machine)
  /\ pc' = "aborted"
  /\ UNCHANGED <<chunk_vars, config, document, last_validation, loop>>

\* an exception out of flush_all (a sink write fails) after the last window
FatalError ==
  /\ pc = "pages"
  /\ loop.page_num >= NumPages
  /\ Stopped(FinalBuffer(Machine, loop.buffer))
  /\ pc' = "aborted"
  /\ UNCHANGED <<chunk_vars, config, document, last_validation, loop>>

PipeConfigs ==
  [llm_enabled : {TRUE}, llm_validation_enabled : {TRUE}, only_edge_chunks : {TRUE},
   garble_enabled : {TRUE}, max_calls : {0, 1}, retry_times : {1},
   batch_size : {1, 2}, save_interval : {1, 2}, enable_checkpoint : BOOLEAN]

InitPipe ==
  /\ config \in PipeConfigs
  /\ llm_call_count = 0
  /\ requests_sent = 0
  /\ last_validation = NoValidation
  /\ document \in [Pages -> PageKinds]
  /\ pc = "idle"
  /\ loop = FreshLoop
  /\ stats = FreshStats
  /\ batch_writer = EmptyWriter
  /\ chunk_counter = 0
  /\ sink = EmptySink
  /\ history = FreshHistory(0)
  /\ IdleChunker

NextPipe ==
  \/ StartRun
  \/ ProcessPage
  \/ SkipUnloadablePage
  \/ SinkFailure
  \/ FinishRun
  \/ Interrupt
  \/ FatalError

SpecPipe == InitPipe /\ [][NextPipe]_vars

\* the same runs, where in addition _process_buffer may raise
NextWindow ==
  \/ StartRun
  \/ ProcessPage
  \/ SkipUnloadablePage
  \/ SinkFailure
  \/ WindowFailure
  \/ FinishRun
  \/ Interrupt
  \/ FatalError

SpecWindow == InitPipe /\ [][NextWindow]_vars

\* the uninterrupted run of the same input under the same configuration
RECURSIVE RefRun(_, _, _, _)
RefRun(m, p, buffer, last_checkpoint_page) ==
  IF p >= NumPages THEN Finished(m, buffer)
  ELSE IF document[p] = "lost" THEN RefRun(m, p + 1, buffer, last_checkpoint_page)
  ELSE IF document[p] = "fail"
  THEN RefRun(FailedPage(m), p + 1, buffer, last_checkpoint_page)
  ELSE RefRun(PageStep(m, p, buffer, last_checkpoint_page), p + 1,
              Retained(buffer \cup {p}),
              IF CheckpointDue(p, last_checkpoint_page) THEN p ELSE last_checkpoint_page)

FreshMachine ==
  [stats |-> FreshStats, writer |-> EmptyWriter, sink |-> EmptySink, chunk_counter |-> 0,
   count |-> 0, requests |-> 0, history |-> FreshHistory(0)]

RefAccepted == RefRun(FreshMachine, 0, {}, -1).sink.chunks_file

\* a chunk record without its identifier
Content(recs) ==
  [i \in DOMAIN recs |->
     [page_start |-> recs[i].page_start, page_end |-> recs[i].page_end,
      llm_quality |-> recs[i].llm_quality]]

\* ================================================================= chunker
\* Text is a sequence of characters. "X" and "Y" stand for two characters of
\* the range U+4E00..U+9FFF, "." for a sentence-ending mark, " " and "\n" for
\* whitespace.
Chinese == {"X", "Y"}
Whitespace == {" ", "\n"}
SentenceEndings == {"."}
BoundaryMarks == {".", "\n"}
Alphabet == {"X", "Y", ".", " "}
NoPage == -1

\* utils.count_tokens, method "simple": int(chinese * 1.5 + other / 4)
CountChinese(text) == Cardinality({i \in DOMAIN text : text[i] \in Chinese})
TokensOf(len, chinese) == (6 * chinese + (len - chinese)) \div 4
count_tokens(text) == TokensOf(Len(text), CountChinese(text))

\* str.strip
RECURSIVE LStrip(_)
LStrip(text) ==
  IF text # <<>> /\ Head(text) \in Whitespace THEN LStrip(Tail(text)) ELSE text
RECURSIVE RStrip(_)
RStrip(text) ==
  IF text # <<>> /\ text[Len(text)] \in Whitespace
  THEN RStrip(SubSeq(text, 1, Len(text) - 1)) ELSE text
strip(text) == RStrip(LStrip(text))

AppendText(texts, text) == IF text # <<>> THEN Append(texts, text) ELSE texts

\* utils.split_sentences: a sentence is the text up to and including a run of
\* ending marks, stripped, dropped when empty
RECURSIVE SentencesFrom(_, _, _, _)
SentencesFrom(text, i, start, acc) ==
  IF i > Len(text) THEN AppendText(acc, strip(SubSeq(text, start, Len(text))))
  ELSE IF text[i] \in SentenceEndings /\ (i = Len(text) \/ text[i + 1] \notin SentenceEndings)
  THEN SentencesFrom(text, i + 1, i + 1, AppendText(acc, strip(SubSeq(text, start, i))))
  ELSE SentencesFrom(text, i + 1, start, acc)
split_sentences(text) == SentencesFrom(text, 1, 1, <<>>)

\* Chunker._get_overlap_text: trailing sentences while their tokens fit
RECURSIVE OverlapFrom(_, _, _, _, _)
OverlapFrom(sentences, k, overlap_text, overlap_tokens, target_tokens) ==
  IF k = 0 THEN strip(overlap_text)
  ELSE IF overlap_tokens + count_tokens(sentences[k]) <= target_tokens
  THEN OverlapFrom(sentences, k - 1, sentences[k] \o <<" ">> \o overlap_text,
                   overlap_tokens + count_tokens(sentences[k]), target_tokens)
  ELSE strip(overlap_text)
OverlapOfSentences(sentences, cfg) ==
  OverlapFrom(sentences, Len(sentences), <<>>, 0, cfg.overlap)
GetOverlapText(text, cfg) ==
  IF text = <<>> THEN <<>> ELSE OverlapOfSentences(split_sentences(text), cfg)

\* Chunker._force_split: character by character, carrying the last
\* int(len * overlap / size) characters into the next piece
LastChars(text, k) == IF k > 0 THEN SubSeq(text, Len(text) - k + 1, Len(text)) ELSE <<>>
ForceCarry(current, cfg) == LastChars(current, (Len(current) * cfg.overlap) \div cfg.size)
RECURSIVE ForceSplitFrom(_, _, _, _, _, _)
ForceSplitFrom(text, i, chunks, current, tokens, cfg) ==
  IF i > Len(text) THEN AppendText(chunks, current)
  ELSE IF tokens + count_tokens(<<text[i]>>) > cfg.size
  THEN ForceSplitFrom(text, i + 1, AppendText(chunks, current),
                      Append(ForceCarry(current, cfg), text[i]),
                      count_tokens(ForceCarry(current, cfg)) + count_tokens(<<text[i]>>), cfg)
  ELSE ForceSplitFrom(text, i + 1, chunks, Append(current, text[i]),
                      tokens + count_tokens(<<text[i]>>), cfg)
ForceSplit(text, cfg) == ForceSplitFrom(text, 1, <<>>, <<>>, 0, cfg)

Front(seq) == SubSeq(seq, 1, Len(seq) - 1)
Last(seq) == seq[Len(seq)]
Joined(current, sentence) ==
  IF current # <<>> THEN current \o <<" ">> \o sentence ELSE sentence

\* Chunker._split_by_tokens, lines 256-258: the last chunk
LastChunk(chunks, current, cfg) ==
  IF current # <<>> /\ count_tokens(current) >= cfg.min_chunk_size
  THEN Append(chunks, current) ELSE chunks

\* Chunker._split_by_tokens, lines 221-254: the loop over the sentences
RECURSIVE TokensLoop(_, _, _, _, _, _)
Restarted(sentences, i, chunks, current, cfg) ==
  TokensLoop(sentences, i + 1, chunks, current, count_tokens(current), cfg)
Forced(sentences, i, chunks, sub_chunks, cfg) ==
  Restarted(sentences, i, chunks \o Front(sub_chunks), Last(sub_chunks), cfg)
TokensLoop(sentences, i, chunks, current, tokens, cfg) ==
  IF i > Len(sentences) THEN LastChunk(chunks, current, cfg)
  ELSE IF count_tokens(sentences[i]) > cfg.size
  THEN Forced(sentences, i, AppendText(chunks, current), ForceSplit(sentences[i], cfg), cfg)
  ELSE IF tokens + count_tokens(sentences[i]) > cfg.size
  THEN Restarted(sentences, i, AppendText(chunks, current),
                 GetOverlapText(current, cfg) \o sentences[i], cfg)
  ELSE TokensLoop(sentences, i + 1, chunks, Joined(current, sentences[i]),
                  tokens + count_tokens(sentences[i]), cfg)

\* Chunker._split_by_tokens
SplitByTokens(text, cfg) ==
  IF cfg.respect_sentence_boundary
  THEN TokensLoop(split_sentences(text), 1, <<>>, <<>>, 0, cfg)
  ELSE ForceSplit(text, cfg)

\* Chunker._split_by_sentences
RECURSIVE SentencesLoop(_, _, _, _, _)
SentencesLoop(sentences, i, chunks, current, cfg) ==
  IF i > Len(sentences) THEN AppendText(chunks, current)
  ELSE IF Len(current) + Len(sentences[i]) > cfg.size * 4
  THEN SentencesLoop(sentences, i + 1, AppendText(chunks, current), sentences[i], cfg)
  ELSE SentencesLoop(sentences, i + 1, chunks, Joined(current, sentences[i]), cfg)
SplitBySentences(text, cfg) == SentencesLoop(split_sentences(text), 1, <<>>, <<>>, cfg)

\* Chunker._split_by_chars, lines 313-318: back from end to a boundary mark;
\* i is a 0-based position
RECURSIVE BoundaryEnd(_, _, _, _)
BoundaryEnd(text, i, low, end) ==
  IF i <= low THEN end
  ELSE IF text[i + 1] \in BoundaryMarks THEN i + 1
  ELSE BoundaryEnd(text, i - 1, low, end)
WindowEnd(text, start, end, cfg) ==
  IF end < Len(text) /\ cfg.respect_sentence_boundary
  THEN BoundaryEnd(text, end, Max(start + (cfg.size * 4) \div 2, start), end)
  ELSE end
NextStart(end, cfg) == IF end - cfg.overlap * 4 <= 0 THEN end ELSE end - cfg.overlap * 4
Slice(text, start, end) == SubSeq(text, start + 1, end)
KeepNonBlank(chunks, chunk) == IF strip(chunk) # <<>> THEN Append(chunks, chunk) ELSE chunks

\* Chunker._split_by_chars
RECURSIVE CharsLoop(_, _, _, _)
CharsTo(text, start, end, chunks, cfg) ==
  CharsLoop(text, NextStart(end, cfg), KeepNonBlank(chunks, Slice(text, start, end)), cfg)
CharsLoop(text, start, chunks, cfg) ==
  IF start >= Len(text) THEN chunks
  ELSE CharsTo(text, start,
               WindowEnd(text, start, Min(start + cfg.size * 4, Len(text)), cfg), chunks, cfg)
SplitByChars(text, cfg) == CharsLoop(text, 0, <<>>, cfg)

\* Chunker._split_into_chunks, lines 140-154: the text of the window, items
\* separated by a blank line, and the page of every character of an item
RECURSIVE FullTextFrom(_, _, _)
FullTextFrom(merged, i, full_text) ==
  IF i > Len(merged) THEN full_text
  ELSE IF full_text # <<>> /\ Last(full_text) # "\n"
  THEN FullTextFrom(merged, i + 1, full_text \o <<"\n", "\n">> \o merged[i].text)
  ELSE FullTextFrom(merged, i + 1, full_text \o merged[i].text)
FullText(merged) == FullTextFrom(merged, 1, <<>>)

RECURSIVE CharToPageFrom(_, _, _, _)
CharToPageFrom(merged, i, full_text, pages) ==
  IF i > Len(merged) THEN pages
  ELSE IF full_text # <<>> /\ Last(full_text) # "\n"
  THEN CharToPageFrom(merged, i + 1, full_text \o <<"\n", "\n">> \o merged[i].text,
                      pages \o <<NoPage, NoPage>> \o
                        [k \in DOMAIN merged[i].text |-> merged[i].page])
  ELSE CharToPageFrom(merged, i + 1, full_text \o merged[i].text,
                      pages \o [k \in DOMAIN merged[i].text |-> merged[i].page])
CharToPage(merged) == CharToPageFrom(merged, 1, <<>>, <<>>)

\* dict.get(pos, default) on char_to_page; pos is a 0-based position
PageAt(char_to_page, pos, default) ==
  IF pos >= 0 /\ pos < Len(char_to_page) /\ char_to_page[pos + 1] # NoPage
  THEN char_to_page[pos + 1] ELSE default

\* str.find(sub, start): the lowest 0-based position at or after start, -1 if
\* there is none; a negative start counts from the end
Matches(text, sub, from) ==
  {k \in from..(Len(text) - Len(sub)) : SubSeq(text, k + 1, k + Len(sub)) = sub}
LowestOr(S, missing) == IF S = {} THEN missing ELSE CHOOSE k \in S : \A j \in S : k <= j
Find(text, sub, start) ==
  LowestOr(Matches(text, sub, IF start < 0 THEN Max(Len(text) + start, 0) ELSE start), -1)

PageEndAsFirstPage(char_to_page, chunk_start, chunk_end, page_start) == char_to_page[1]

\* Chunker._split_into_chunks, line 179
PageEnd(char_to_page, chunk_start, chunk_end, page_start) ==
  PageAt(char_to_page, Min(chunk_end - 1, Len(char_to_page) - 1), page_start)

\* Chunker._split_into_chunks, lines 176-199: the Chunk of a chunk text found
\* (or assumed) at chunk_start
MakeChunk(char_to_page, chunk_text, chunk_start, page_start, index) ==
  [content |-> strip(chunk_text),
   text |-> chunk_text,
   page_start |-> page_start,
   page_end |-> PageEnd(char_to_page, chunk_start, chunk_start + Len(chunk_text), page_start),
   index |-> index,
   token_count |-> count_tokens(chunk_text),
   char_count |-> Len(chunk_text)]

\* Chunker._split_into_chunks, lines 166-201: the loop over the chunk texts
RECURSIVE ChunksLoop(_, _, _, _, _, _, _, _)
Located(full_text, char_to_page, texts, i, chunk_start, counter, chunks, cfg) ==
  ChunksLoop(full_text, char_to_page, texts, i + 1,
             chunk_start + Len(texts[i]) - cfg.overlap, counter + 1,
             Append(chunks, MakeChunk(char_to_page, texts[i], chunk_start,
                                      PageAt(char_to_page, chunk_start, 0), counter + 1)),
             cfg)
ChunksLoop(full_text, char_to_page, texts, i, current_pos, counter, chunks, cfg) ==
  IF i > Len(texts) THEN [called |-> TRUE, chunks |-> chunks, counter |-> counter]
  ELSE IF strip(texts[i]) = <<>>
  THEN ChunksLoop(full_text, char_to_page, texts, i + 1, current_pos, counter, chunks, cfg)
  ELSE Located(full_text, char_to_page, texts, i,
               LowestOr({Find(full_text, texts[i], current_pos)} \ {-1}, current_pos),
               counter, chunks, cfg)

\* Chunker._split_into_chunks, lines 158-164: the segmentation policy
ChunkTexts(full_text, cfg) ==
  IF cfg.split_by = "token" THEN SplitByTokens(full_text, cfg)
  ELSE IF cfg.split_by = "sentence" THEN SplitBySentences(full_text, cfg)
  ELSE SplitByChars(full_text, cfg)

SplitText(full_text, char_to_page, cfg, counter) ==
  IF strip(full_text) = <<>> THEN [called |-> TRUE, chunks |-> <<>>, counter |-> counter]
  ELSE ChunksLoop(full_text, char_to_page, ChunkTexts(full_text, cfg), 1, 0, counter, <<>>, cfg)

\* Chunker._split_into_chunks
SplitIntoChunks(merged, cfg, counter) ==
  SplitText(FullText(merged), CharToPage(merged), cfg, counter)

\* Chunker.create_chunks, after _merge_page_contents
CreateChunksOf(merged, cfg, counter) ==
  IF merged = <<>> THEN [called |-> TRUE, chunks |-> <<>>, counter |-> counter]
  ELSE SplitIntoChunks(merged, cfg, counter)

\* the texts _merge_page_contents lets through: stripped and not empty
TextsUpTo(n) ==
  {t \in UNION {[1..k -> Alphabet] : k \in 1..n} :
     t[1] \notin Whitespace /\ t[Len(t)] \notin Whitespace}
MergedContents ==
  {<<[text |-> t, page |-> 1]>> : t \in TextsUpTo(MaxText)}
  \cup {<<[text |-> t, page |-> 1], [text |-> u, page |-> q]>> :
          t \in TextsUpTo(MaxPart), u \in TextsUpTo(MaxPart), q \in {1, 2}}

\* configurations Config.validate accepts (size > 0, overlap < size), with
\* sizes of the order of the texts
ChunkConfigs ==
  [size : {2, 3}, overlap : {0, 1, 2}, min_chunk_size : {0, 2}, split_by : {"token"},
   respect_sentence_boundary : BOOLEAN]
  \cup [size : {1}, overlap : {0}, min_chunk_size : {0}, split_by : {"sentence", "char"},
        respect_sentence_boundary : BOOLEAN]

\* the defaults of LLMConfig, LLMValidationConfig, GarbleDetectionConfig and
\* RuntimeConfig
DefaultConfig ==
  [llm_enabled |-> TRUE, llm_validation_enabled |-> TRUE, only_edge_chunks |-> TRUE,
   garble_enabled |-> TRUE, max_calls |-> 500, retry_times |-> 3, batch_size |-> 10,
   save_interval |-> 50, enable_checkpoint |-> TRUE]

InitChunk ==
  /\ chunk_config \in {c \in ChunkConfigs : c.overlap < c.size}
  /\ merged_content \in MergedContents
  /\ created = NothingCreated
  /\ by_chars = NotSplitting
  /\ config = DefaultConfig
  /\ llm_call_count = 0
  /\ requests_sent = 0
  /\ last_validation = NoValidation
  /\ IdlePipeline

\* Chunker.create_chunks on a new Chunker
CreateChunksCall ==
  /\ ~created.called
  /\ created' = CreateChunksOf(merged_content, chunk_config, 0)
  /\ UNCHANGED <<gate_vars, pipe_vars, chunk_config, merged_content, by_chars>>

NextChunk == CreateChunksCall

SpecChunk == InitChunk /\ [][NextChunk]_vars

\* ------------------------------------------- _split_by_chars, step by step
\* Chunker._split_by_chars, lines 322-328: the slice is kept, the cursor moves
CharsAdvance(text, start, end, chunks, cfg) ==
  [pc |-> "loop", start |-> NextStart(end, cfg),
   chunks |-> KeepNonBlank(chunks, Slice(text, start, end))]

\* Chunker._split_by_chars, lines 312-328: one iteration of the while loop
CharsIteration(text, start, chunks, cfg) ==
  CharsAdvance(text, start,
               WindowEnd(text, start, Min(start + cfg.size * 4, Len(text)), cfg), chunks, cfg)

\* configurations Config.validate accepts for the character policy
CharConfigs ==
  [size : {1, 2}, overlap : {0, 1}, min_chunk_size : {0}, split_by : {"char"},
   respect_sentence_boundary : BOOLEAN]

\* _split_into_chunks calls _split_by_chars(full_text), line 166
InitChars ==
  /\ chunk_config \in {c \in CharConfigs : c.overlap < c.size}
  /\ merged_content \in MergedContents
  /\ created = NothingCreated
  /\ by_chars = [pc |-> "loop", start |-> 0, chunks |-> <<>>]
  /\ config = DefaultConfig
  /\ llm_call_count = 0
  /\ requests_sent = 0
  /\ last_validation = NoValidation
  /\ IdlePipeline

\* the body of `while start < len(text)`, once
SplitByCharsIterate ==
  /\ by_chars.pc = "loop"
  /\ by_chars.start < Len(FullText(merged_content))
  /\ Len(by_chars.chunks) < MaxPieces
  /\ by_chars' = CharsIteration(FullText(merged_content), by_chars.start, by_chars.chunks,
                                chunk_config)
  /\ UNCHANGED <<gate_vars, pipe_vars, chunk_config, merged_content, created>>

\* the loop condition fails: return chunks
SplitByCharsReturn ==
  /\ by_chars.pc = "loop"
  /\ by_chars.start >= Len(FullText(merged_content))
  /\ by_chars' = [by_chars EXCEPT !.pc = "returned"]
  /\ UNCHANGED <<gate_vars, pipe_vars, chunk_config, merged_content, created>>

NextChars == SplitByCharsIterate \/ SplitByCharsReturn

SpecChars == InitChars /\ [][NextChars]_vars

\* ======================================================== quality gate claims
Entries == {last_validation.entries[i] : i \in DOMAIN last_validation.entries}
Consulted(e) == e.count_after = e.count_before + 1
ConfidentlyGood(r) == r.confidence > edge_threshold /\ r.quality = "good"
ConfidentlyBad(r) == r.confidence < bad_score
OracleAnswered(e) ==
  /\ e.response.kind = "json"
  /\ e.response.quality # "null"
  /\ e.response.confidence = "number"
OracleVerdict(e) ==
  IF e.response.quality \in {"good", "low", "reject"} THEN e.response.quality ELSE "low"
PlacedIn(list, cid) == Cardinality({i \in DOMAIN list : list[i].cid = cid})
Batch == last_validation.op = "validate_chunks"

\* C1: the call counter never exceeds llm.max_calls; a chunk that arrives when
\* the counter equals the ceiling is not routed (no request is sent for it)
\* and leaves the counter as it was, whatever its rule result.
C1_BudgetNeverExceeded ==
  /\ llm_call_count <= config.max_calls
  /\ \A e \in Entries :
       /\ e.count_after <= config.max_calls
       /\ e.count_before = config.max_calls
            => (e.count_after = e.count_before /\ e.requests = 0 /\ e.response = NoResponse)

C1_Witness ==
  /\ config.max_calls > 0
  /\ llm_call_count = config.max_calls
  /\ config.llm_enabled /\ config.llm_validation_enabled /\ ~config.only_edge_chunks
  /\ \E e \in Entries : e.count_before = config.max_calls /\ e.requests = 0

\* C2: the number of requests sent to the oracle endpoint, retries included,
\* never exceeds llm.max_calls.
C2_RequestsWithinCeiling == requests_sent <= config.max_calls

C4_OracleSupersedes ==
  \A e \in Entries :
    (Consulted(e) /\ OracleAnswered(e)) =>
      /\ e.result.source = "llm"
      /\ e.result.quality = OracleVerdict(e)
      /\ e.chunk.llm_quality = OracleVerdict(e)
      /\ Batch => /\ PlacedIn(last_validation.rejected, e.input.cid)
                       = (IF OracleVerdict(e) = "reject" THEN 1 ELSE 0)
                  /\ PlacedIn(last_validation.accepted, e.input.cid)
                       = (IF OracleVerdict(e) = "reject" THEN 0 ELSE 1)

C4_Witness ==
  /\ Batch
  /\ \E e \in Entries :
       /\ Consulted(e) /\ OracleAnswered(e)
       /\ e.rule_result.quality = "reject" /\ OracleVerdict(e) = "good"
       /\ PlacedIn(last_validation.accepted, e.input.cid) = 1
  /\ \E e \in Entries :
       /\ Consulted(e) /\ OracleAnswered(e)
       /\ e.rule_result.quality = "low" /\ OracleVerdict(e) = "reject"
       /\ PlacedIn(last_validation.rejected, e.input.cid) = 1

\* C5: when a consultation fails (retries exhausted, empty response, nothing
\* parseable) nothing is raised, the rule result is returned, the chunk keeps
\* its default semantic fields and is placed by its rule verdict.
C5_OracleFailureFallsBack ==
  /\ ~last_validation.raised
  /\ \A e \in Entries :
       (Consulted(e) /\ ~OracleAnswered(e)) =>
         /\ e.result = e.rule_result
         /\ e.result.source = "rule"
         /\ e.chunk.llm_quality = "none"
         /\ e.chunk.llm_confidence = 0
         /\ e.chunk.llm_reason = <<>>
         /\ Batch => /\ PlacedIn(last_validation.rejected, e.input.cid)
                          = (IF e.rule_result.quality = "reject" THEN 1 ELSE 0)
                     /\ PlacedIn(last_validation.accepted, e.input.cid)
                          = (IF e.rule_result.quality = "reject" THEN 0 ELSE 1)

C5_Witness ==
  /\ Batch
  /\ \E e \in Entries :
       /\ Consulted(e)
       /\ e.response = NoResponse /\ e.requests = config.retry_times /\ e.requests > 1
       /\ e.rule_result.quality = "reject"
       /\ PlacedIn(last_validation.rejected, e.input.cid) = 1
  /\ \E e \in Entries :
       /\ Consulted(e)
       /\ e.response = NoResponse
       /\ e.rule_result.quality = "low"
       /\ PlacedIn(last_validation.accepted, e.input.cid) = 1

\* C6: validate_chunks returns a partition of its input: every input chunk is
\* in exactly one of accepted and rejected, exactly once; each list keeps the
\* input order; rejected holds exactly the chunks whose authoritative verdict
\* is reject; every rejected chunk carries reject_reason.
C6_Partition ==
  Batch =>
    LET acc == last_validation.accepted
        rej == last_validation.rejected
        n == Len(last_validation.entries)
    IN /\ ~last_validation.raised
       /\ Len(acc) + Len(rej) = n
       /\ \A c \in 1..n :
            /\ last_validation.entries[c].input.cid = c
            /\ PlacedIn(acc, c) + PlacedIn(rej, c) = 1
            /\ PlacedIn(rej, c) = 1 <=> last_validation.entries[c].result.quality = "reject"
       /\ \A i, j \in DOMAIN acc : i < j => acc[i].cid < acc[j].cid
       /\ \A i, j \in DOMAIN rej : i < j => rej[i].cid < rej[j].cid
       /\ \A i \in DOMAIN acc : acc[i] = last_validation.entries[acc[i].cid].chunk
       /\ \A i \in DOMAIN rej :
            /\ rej[i].has_reject_reason
            /\ rej[i].reject_reason = last_validation.entries[rej[i].cid].result.reason

C6_Witness ==
  /\ Batch
  /\ Len(last_validation.entries) = 2
  /\ \E i \in DOMAIN last_validation.accepted :
       last_validation.entries[last_validation.accepted[i].cid].result.quality = "low"
  /\ Len(last_validation.rejected) = 1
  /\ last_validation.rejected[1].cid = 1

\* ========================================================== pipeline claims
\* a run has just begun: Pipeline.run went from construction to the page loop
RunBegins == pc # "pages" /\ pc' = "pages"
CheckpointFound == loop'.resume /\ config.enable_checkpoint /\ sink.checkpoint.exists
KeptStreams ==
  /\ sink'.pages_file = sink.pages_file
  /\ sink'.chunks_file = sink.chunks_file
  /\ sink'.rejected_file = sink.rejected_file
EmptiedStreams ==
  /\ sink'.pages_file = <<>>
  /\ sink'.chunks_file = <<>>
  /\ sink'.rejected_file = <<>>
PageCounted == Len(history'.processed) = Len(history.processed) + 1
CountedPage == history'.processed[Len(history'.processed)]
ResumedJobDone == pc = "done" /\ history.resumes > 0

\* C7: after an interruption and a resume from the saved checkpoint, every
\* page that parses is in a window that was segmented and gated by one of the
\* runs, and no page is processed twice.
C7_ResumeExact ==
  ResumedJobDone =>
    /\ \A p \in Pages :
         document[p] \notin {"fail", "lost"} =>
           \E i \in DOMAIN history.windows : p \in history.windows[i]
    /\ \A i, j \in DOMAIN history.processed :
         i # j => history.processed[i] # history.processed[j]

\* C8: after an interruption and a resume, the accepted-chunk stream the runs
\* leave behind equals, chunk identifiers aside, the accepted-chunk stream of
\* the uninterrupted run of the same input under the same configuration.
C8_ResumeEqualsUninterrupted ==
  ResumedJobDone => Content(sink.chunks_file) = Content(RefAccepted)

\* C9 as stated: a run that finds a checkpoint starts at
\* checkpoint.last_processed_page + 1, processes only pages from there on, and
\* opens the streams in append mode, keeping the records written earlier;
\* without a checkpoint it starts at the first page.
C9_ResumeAppends ==
  [][/\ (RunBegins /\ CheckpointFound) =>
          /\ loop'.start_page = sink.checkpoint.last_processed_page + 1
          /\ loop'.append_mode
          /\ KeptStreams
     /\ (RunBegins /\ ~CheckpointFound) => loop'.start_page = 0
     /\ PageCounted => CountedPage >= loop.start_page]_vars

\* C9 amended: a run that finds a checkpoint starts at
\* checkpoint.last_processed_page + 1 and a run that finds none starts at the
\* first page; only pages from the start page on are processed; the streams
\* are opened in append mode, keeping the earlier records, exactly when the
\* start page is greater than 0, and are emptied when the start page is 0
\* (which includes a checkpoint whose last_processed_page is -1).
C9_ResumeStartAndMode ==
  [][/\ (RunBegins /\ CheckpointFound) =>
          loop'.start_page = sink.checkpoint.last_processed_page + 1
     /\ (RunBegins /\ ~CheckpointFound) => loop'.start_page = 0
     /\ RunBegins =>
          /\ loop'.append_mode = (loop'.start_page > 0)
          /\ loop'.append_mode => KeptStreams
          /\ ~loop'.append_mode => EmptiedStreams
     /\ PageCounted => (CountedPage >= loop.start_page /\ CountedPage = loop.page_num)]_vars

\* a resumed run that started after page 0 on kept streams and counted a page
C9_Witness ==
  /\ pc = "pages"
  /\ loop.resume /\ loop.checkpoint.exists
  /\ loop.start_page = loop.checkpoint.last_processed_page + 1
  /\ loop.start_page > 0 /\ loop.append_mode
  /\ sink.pages_file # <<>>
  /\ loop.page_num > loop.start_page
  /\ history.last_done >= loop.start_page

\* C10: a run that exits on a cancellation or an unhandled error with
\* checkpointing enabled leaves a checkpoint whose last_processed_page is the
\* number of the last page actually processed.
C10_CheckpointIsLastPage ==
  (pc = "aborted" /\ config.enable_checkpoint) =>
    /\ sink.checkpoint.exists
    /\ sink.checkpoint.last_processed_page = history.last_done

\* a run exits on a cancellation or an unhandled error, checkpointing enabled
RunExits == pc = "pages" /\ pc' = "aborted" /\ config.enable_checkpoint
MarkedDone(p) == p <= sink'.checkpoint.last_processed_page
InStream(stream, x) == \E j \in DOMAIN stream : stream[j] = x

\* C11: when a run is interrupted, every raw page record and every accepted or
\* rejected chunk that the batch writer was handed for pages up to the saved
\* checkpoint's last_processed_page is in its output stream when the run exits.
C11_PartialOutputRetained ==
  [][RunExits =>
       /\ \A i \in DOMAIN batch_writer.pages_buffer :
            MarkedDone(batch_writer.pages_buffer[i]) =>
              InStream(sink'.pages_file, batch_writer.pages_buffer[i])
       /\ \A i \in DOMAIN batch_writer.chunks_buffer :
            MarkedDone(batch_writer.chunks_buffer[i].page_end) =>
              InStream(sink'.chunks_file, batch_writer.chunks_buffer[i])
       /\ \A i \in DOMAIN batch_writer.rejected_buffer :
            MarkedDone(batch_writer.rejected_buffer[i].page_end) =>
              InStream(sink'.rejected_file, batch_writer.rejected_buffer[i])]_vars

\* the loop takes a page whose parsing or normalisation raises
FailStep ==
  /\ pc = "pages" /\ loop.page_num < NumPages
  /\ document[loop.page_num] = "fail"
  /\ loop' # loop
RunCompletes == pc = "pages" /\ pc' = "done"
ParsedPagesFrom(start) == {p \in Pages : p >= start /\ document[p] \notin {"fail", "lost"}}

\* C12: a page whose parsing or normalisation raises does not abort the run:
\* the loop goes on to the next page, the failed page adds nothing to the
\* buffer, to a window or to the output, it is counted as failed and not as
\* processed; a run that completes has processed every page of its range that
\* parses (and whose window flush did not raise) and has flushed the writer.
C12_PageFailureIsSkipped ==
  [][/\ FailStep =>
          /\ pc' = "pages"
          /\ loop'.page_num = loop.page_num + 1
          /\ loop'.buffer = loop.buffer
          /\ stats'.failed_pages = stats.failed_pages + 1
          /\ stats'.processed_pages = stats.processed_pages
          /\ history'.windows = history.windows
          /\ sink' = sink /\ batch_writer' = batch_writer
     /\ RunCompletes =>
          /\ stats'.processed_pages
               = Cardinality(ParsedPagesFrom(loop.start_page) \ history'.unflushed)
          /\ \A p \in ParsedPagesFrom(loop.start_page) \ history'.unflushed :
               InStream(history'.processed, p)
          /\ \A i \in DOMAIN history'.windows : \A p \in history'.windows[i] :
               document[p] \notin {"fail", "lost"}
          /\ batch_writer' = EmptyWriter]_vars

\* a run that met a failing page completed, with a later page in a window
C12_Witness ==
  /\ pc = "done"
  /\ stats.failed_pages = 1
  /\ \E p, q \in Pages :
       /\ p < q /\ p >= loop.start_page
       /\ document[p] = "fail" /\ document[q] = "good"
       /\ \E i \in DOMAIN history.windows : q \in history.windows[i]
       /\ InStream(sink.pages_file, q)
  /\ batch_writer = EmptyWriter

\* C13: when page processing completes, processed_pages + failed_pages equals
\* the number of pages from the start page to the end of the range.
C13_EveryPageCounted ==
  pc = "done" => stats.processed_pages + stats.failed_pages = NumPages - loop.start_page

\* the loop takes a page that parses and the handler counts a failure: the sink
\* raised
SinkErrorStep ==
  /\ pc = "pages" /\ loop.page_num < NumPages
  /\ document[loop.page_num] \notin {"fail", "lost"}
  /\ stats'.failed_pages = stats.failed_pages + 1

\* C14: a sink error during page processing is not counted as a page failure:
\* it ends the run with a checkpoint saved and no further page is taken.
C14_SinkErrorAborts ==
  [][SinkErrorStep =>
       /\ pc' = "aborted"
       /\ sink'.checkpoint.exists
       /\ loop'.page_num = loop.page_num
       /\ stats'.failed_pages = stats.failed_pages]_vars

\* C17: the identifiers of the chunks a resumed run emits do not collide
\* with the identifiers of the chunks the runs before it emitted.
C17_IdsNeverCollide ==
  \A i, j \in DOMAIN history.ids : i # j => history.ids[i] # history.ids[j]

\* =========================================================== chunker claims
Created == created.chunks
SpansPages(chunk) == chunk.page_start < chunk.page_end

\* C15: every chunk create_chunks returns has page_start <= page_end.
C15_PageRangeOrdered ==
  \A i \in DOMAIN Created : Created[i].page_start <= Created[i].page_end

\* two chunks were returned, one spanning two pages and one starting on the
\* later page
C15_Witness ==
  /\ created.called
  /\ \E i, j \in DOMAIN Created :
       /\ i < j
       /\ SpansPages(Created[i])
       /\ Created[j].page_start = 2 /\ Created[j].page_end = 2

\* C16: every chunk create_chunks returns has char_count equal to the length
\* of its content.
C16_CharCountIsContentLength ==
  \A i \in DOMAIN Created : Created[i].char_count = Len(Created[i].content)

TokenPolicy == chunk_config.split_by = "token"
WindowText == FullText(merged_content)
\* no sentence of the window needs _force_split
NoForceSplit ==
  /\ chunk_config.respect_sentence_boundary
  /\ \A i \in DOMAIN split_sentences(WindowText) :
       count_tokens(split_sentences(WindowText)[i]) <= chunk_config.size
\* the last k sentences of the earlier chunk open the later chunk, for some k
SharedRun(earlier, later) ==
  \E k \in 1..Min(Len(earlier), Len(later)) :
    SubSeq(earlier, Len(earlier) - k + 1, Len(earlier)) = SubSeq(later, 1, k)
SharesSentence(a, b) == SharedRun(split_sentences(a.text), split_sentences(b.text))

\* C18: under the token policy with overlap > 0 and without a force-split,
\* when two or more chunks are produced, every two consecutive chunks share a
\* sentence: a trailing sentence of the earlier one opens the next.
C18_ConsecutiveChunksOverlap ==
  (created.called /\ TokenPolicy /\ chunk_config.overlap > 0 /\ NoForceSplit) =>
    \A i \in DOMAIN Created : i > 1 => SharesSentence(Created[i - 1], Created[i])

\* C19: a window with non-blank text never yields an empty chunk sequence:
\* the text left after the last full chunk is emitted whatever its size.
C19_TrailingFragmentEmitted ==
  (created.called /\ strip(WindowText) # <<>>) => Created # <<>>

\* C20: under the token policy the estimated token count of every chunk is at
\* most the configured chunk size.
C20_ChunksWithinBudget ==
  (created.called /\ TokenPolicy) =>
    \A i \in DOMAIN Created : Created[i].token_count <= chunk_config.size

\* ============================================== window and checkpoint claims
\* the loop takes a page that parses and counts it as processed
PageBuffered == pc = "pages" /\ pc' = "pages" /\ PageCounted
Filled == loop.buffer \cup {loop.page_num}
WindowsHanded == Len(history'.windows) - Len(history.windows)
LastWindow == history'.windows[Len(history'.windows)]

\* C21: pages enter the buffer one at a time; the buffer is handed to the
\* segmenter exactly when it holds runtime.batch_size pages, whole, and is then
\* reset to its highest page; when the stream ends a remaining buffer is
\* segmented once.
C21_SlidingWindow ==
  [][/\ PageBuffered =>
          /\ (WindowsHanded = 1) <=> (Cardinality(Filled) = config.batch_size)
          /\ WindowsHanded = 1 => (LastWindow = Filled /\ loop'.buffer = {MaxOf(Filled)})
          /\ WindowsHanded # 1 => (WindowsHanded = 0 /\ loop'.buffer = Filled)
     /\ RunCompletes =>
          /\ loop.buffer # {} => (WindowsHanded = 1 /\ LastWindow = loop.buffer)
          /\ loop.buffer = {} => WindowsHanded = 0]_vars

\* the loop counts a page and nothing raises
PageDone == PageBuffered /\ stats'.failed_pages = stats.failed_pages
PeriodicSave == history'.since_save = 0

\* C22: with checkpointing enabled a checkpoint is saved each time
\* runtime.save_interval pages (or more, after a save that raised) have been
\* processed since the previous save or the start of the run; the saved
\* checkpoint records the page just processed, the chunks processed and the
\* oracle calls consumed so far.
C22_PeriodicCheckpoint ==
  [][PageDone =>
       /\ PeriodicSave <=>
            (config.enable_checkpoint /\ history.since_save + 1 >= config.save_interval)
       /\ PeriodicSave =>
            /\ sink'.checkpoint.exists
            /\ sink'.checkpoint.last_processed_page = loop.page_num
            /\ sink'.checkpoint.processed_chunks = stats'.total_chunks
            /\ sink'.checkpoint.llm_calls_used = history'.calls]_vars

\* ============================================ force-split and cursor claims
Contains(text, sub) == Matches(text, sub, 0) # {}
Emitted(piece) == \E j \in DOMAIN Created : Contains(Created[j].text, piece)
WithinBudget(pieces) == \A k \in DOMAIN pieces : count_tokens(pieces[k]) <= chunk_config.size
AllEmitted(pieces) == \A k \in DOMAIN pieces : Emitted(pieces[k])
ForceSplitSound(pieces) == Len(pieces) >= 2 /\ WithinBudget(pieces) /\ AllEmitted(pieces)
Oversized(sentence) == count_tokens(sentence) > chunk_config.size
LongSentencesSplit(sentences) ==
  \A i \in DOMAIN sentences :
    Oversized(sentences[i]) => ForceSplitSound(ForceSplit(sentences[i], chunk_config))

\* C23: under the token policy a sentence whose token estimate exceeds the
\* chunk size is force-split into two or more pieces, each with a token
\* estimate within the chunk size, and every piece is in an emitted chunk.
C23_LongSentenceForceSplit ==
  (created.called /\ TokenPolicy /\ chunk_config.respect_sentence_boundary) =>
    LongSentencesSplit(split_sentences(WindowText))

\* the while loop of _split_by_chars runs its body once more
CharsIterates == by_chars.pc = "loop" /\ by_chars'.pc = "loop"

\* C24: under the character policy every iteration moves the cursor forward,
\* for every text and every configuration with 0 <= overlap < size.
C24_CursorAdvances ==
  [][CharsIterates => by_chars'.start > by_chars.start]_vars

\* ======================================================= rule verdict claims
Violations(e) == Len(RuleReasons(config, e.input))
Score(e) == e.rule_result.confidence

\* C25: the rule verdict is a function of the number of violated rules and
\* the composite score: no violation gives good; one violation with a score of
\* at least 0.3 gives low; two or more violations, or a score below 0.3, give
\* reject.
C25_RuleVerdictTable ==
  \A e \in Entries :
    /\ e.rule_result.quality \in {"good", "low", "reject"}
    /\ e.rule_result.source = "rule"
    /\ Violations(e) = 0 => e.rule_result.quality = "good"
    /\ (Violations(e) = 1 /\ Score(e) >= reject_score) => e.rule_result.quality = "low"
    /\ (Violations(e) >= 2 \/ Score(e) < reject_score) => e.rule_result.quality = "reject"

\* a chunk with a single violated rule and a score below 0.3 was rejected by
\* the rules
C25_Witness ==
  \E e \in Entries :
    /\ Violations(e) = 1
    /\ Score(e) < reject_score
    /\ e.rule_result.quality = "reject"

\* ============================================================= retry claims
Answered(e) == e.script.fails < config.retry_times

InPageLoop == pc = "pages" /\ pc' = "pages"

\* C27: during page processing the page buffer never holds more than
\* runtime.batch_size pages, and holds exactly one page right after a window
\* was handed over, also when _process_buffer raises during a window flush.
C27_BufferBounded ==
  [][InPageLoop =>
       /\ Cardinality(loop'.buffer) <= config.batch_size
       /\ WindowsHanded = 1 => Cardinality(loop'.buffer) = 1]_vars

\* ======================================================== provenance claims
WindowPages == {merged_content[i].page : i \in DOMAIN merged_content}

\* C28: for every chunk create_chunks returns, page_start and page_end are
\* pages of the window that was passed in, also when the chunk text is not
\* found verbatim in the text of the window.
C28_ProvenanceInWindow ==
  \A i \in DOMAIN Created :
    Created[i].page_start \in WindowPages /\ Created[i].page_end \in WindowPages

\* ============================================================ resume claims
\* C29: across an interrupted run and its resumption the oracle calls made
\* before the interruption plus those made after the resume never exceed
\* llm.max_calls.
C29_SingleBudgetAcrossResume ==
  history.resumes > 0 => history.calls <= config.max_calls

\* the window was handed to the segmenter before, alone or inside a larger one
SegmentedBefore(window) == \E i \in DOMAIN history.windows : window \subseteq history.windows[i]

\* C30: the final flush at the end of the stream never hands over a window
\* that consists only of the retained page of a window segmented before, so
\* the final flush does not emit the chunks of a page a second time.
C30_FinalFlushIsNew ==
  [][(RunCompletes /\ history.resumes = 0 /\ WindowsHanded = 1)
       => ~SegmentedBefore(LastWindow)]_vars

====
